---- MODULE Spec2Model ----
(***************************************************************************)
(* Model of src/src/main.py: the bounded-retry executor                    *)
(* (call_api_with_retry), the generate-then-judge pipeline                 *)
(* (iterative_generate_prompts) and the resumable per-language dataset     *)
(* loop (generate_dataset).                                                *)
(*                                                                         *)
(* Python values are modelled as follows.  A JSON object (dict) is a       *)
(* record whose DOMAIN is its key set, so `"k" in d` is "k" \in DOMAIN d.   *)
(* None is the record NoneVal.  A JSON array of strings is a sequence of   *)
(* items.  What a backend closure `call()` does on one invocation is a     *)
(* response record: it returns a JSON object, returns a JSON value that is *)
(* not a container (number, null, boolean), or raises.                     *)
(***************************************************************************)
EXTENDS Integers, Sequences, FiniteSets, TLC

VARIABLES
    call_func,   \* call_api_with_retry: what call_func() does on its 1st, 2nd, ... invocation
    retry,       \* call_api_with_retry: the state of the running invocation
    pipe,        \* iterative_generate_prompts: the state of the running invocation
    files,       \* the file system: filename -> what is stored under it
    ds,          \* generate_dataset: the locals and position of the running process
    hist         \* history of the runs of generate_dataset (not program state)

vars == <<call_func, retry, pipe, files, ds, hist>>

(***************************************************************************)
(* Values                                                                  *)
(***************************************************************************)
NoneVal == [none |-> TRUE]

\* A JSON array of n strings; the tag tells one generated text from another.
MkList(tag, n) == [i \in 1..n |-> <<tag, i>>]

\* call() returned the JSON object d
Returns(d) == [kind |-> "json", exc |-> "none", data |-> d]
\* call() returned a JSON number, null or boolean (json.loads accepts them)
ReturnsScalar == [kind |-> "scalar", exc |-> "none", data |-> NoneVal]
\* call() raised the exception e
Raises(e) == [kind |-> "raise", exc |-> e, data |-> NoneVal]

(***************************************************************************)
(* Dataset structure (lines 35-55), cut down to a grid small enough to     *)
(* enumerate: the first entries of each axis, a total of                   *)
(* NUM_PROMPTS_PER_COMBO prompts per combination fetched BATCH_SIZE at a   *)
(* time (150 and 20 in the source).                                        *)
(***************************************************************************)
LANGUAGES == <<"English", "Mandarin Chinese">>

\* TEXT_LENGTHS.items(): (category, description) pairs in insertion order
TEXT_LENGTHS == << <<"Microcopy/Label", "1-2 words">>, <<"Headline/Title", "3-6 words">> >>

TEXT_QUANTITIES == <<1>>

SCENARIOS == <<"Signboards & Billboards">>

TEXT_VARIATIONS == <<"Correct Spelling">>

BACKGROUNDS == <<"Complex Background">>

LAYOUTS == <<"Uniform Font and Style">>

NUM_PROMPTS_PER_COMBO == 3

BATCH_SIZE == 2

(***************************************************************************)
(* call_api_with_retry                                                     *)
(***************************************************************************)
\* `def call_api_with_retry(call_func, retries=3, delay=5)`; every caller uses
\* the defaults
retries == 3

delay == 5

\* `except (ValueError, json.JSONDecodeError)`: JSONDecodeError is a subclass
\* of ValueError; the HTTP clients' transport errors (openai.APIConnectionError,
\* google.api_core exceptions, ...) are not.
CaughtExceptions == {"ValueError", "JSONDecodeError"}

Catches(e) == e \in CaughtExceptions

\* `if "prompts" in data and "inscriptions" in data`
Accepts(data) == {"prompts", "inscriptions"} \subseteq DOMAIN data

\* `if attempt < retries - 1`
SleepsAfter(attempt) == attempt < retries - 1

\* `delay * (attempt + 1)`
Backoff(attempt) == delay * (attempt + 1)

RetryStart ==
    [pc |-> "loop", attempt |-> 0, calls |-> 0, sleeps |-> <<>>,
     ret |-> NoneVal, exc |-> "none"]

\* One iteration of `for attempt in range(retries)` in which call_func() does
\* `out`; the loop's exit (log the error, return None) is part of the last one.
AttemptStep(s, out) ==
    LET called == [s EXCEPT !.calls = @ + 1]
        \* the end of the loop body, reached when no data was returned
        fallthrough ==
            LET slept == IF SleepsAfter(s.attempt)
                            THEN [called EXCEPT !.sleeps = Append(@, Backoff(s.attempt))]
                            ELSE called
            IN  IF s.attempt + 1 < retries
                   THEN [slept EXCEPT !.attempt = @ + 1]
                   ELSE [slept EXCEPT !.attempt = @ + 1, !.pc = "returned", !.ret = NoneVal]
    IN  CASE out.kind = "raise" /\ Catches(out.exc) -> fallthrough
          [] out.kind = "raise" /\ ~Catches(out.exc) ->
                [called EXCEPT !.pc = "raised", !.exc = out.exc]
          \* `"prompts" in data` on a number, None or a boolean
          [] out.kind = "scalar" ->
                [called EXCEPT !.pc = "raised", !.exc = "TypeError"]
          [] out.kind = "json" /\ Accepts(out.data) ->
                [called EXCEPT !.pc = "returned", !.ret = out.data]
          [] OTHER -> fallthrough

RECURSIVE RetryRun(_, _)
RetryRun(s, outs) ==
    IF s.pc # "loop" THEN s ELSE RetryRun(AttemptStep(s, outs[s.attempt + 1]), outs)

\* The whole of call_api_with_retry(call_func), call_func given by what it does
\* on each invocation.
call_api_with_retry(outs) == RetryRun(RetryStart, outs)

(***************************************************************************)
(* The three backends: each wraps its closure in call_api_with_retry.      *)
(* `outs` is what the backend's closure does on each invocation.           *)
(***************************************************************************)
generate_with_gemini(outs) == call_api_with_retry(outs)

generate_with_grok_fast(outs) == call_api_with_retry(outs)

generate_with_tongyi(outs) == call_api_with_retry(outs)

(***************************************************************************)
(* Prompt construction                                                     *)
(***************************************************************************)
\* The text embeds every parameter; two prompts are equal iff all parameters are.
create_meta_prompt(language, scenario, length_category, length_desc, quantity, variation, background, layout, num_prompts) ==
    [language |-> language, scenario |-> scenario,
     length_category |-> length_category, length_desc |-> length_desc,
     quantity |-> quantity, variation |-> variation, background |-> background,
     layout |-> layout, num_prompts |-> num_prompts]

create_judge_prompt(previous_output, rules_prompt) ==
    [rules |-> rules_prompt, previous_output |-> previous_output]

\* json.dumps of a JSON object: the text of all its keys and values.
json_dumps(d) == [text |-> d]

(***************************************************************************)
(* iterative_generate_prompts                                              *)
(***************************************************************************)
\* The default of the parameter is 10; the model runs the loop with a smaller
\* budget.
max_iter == 3

judges == <<"generate_with_grok_fast", "generate_with_tongyi", "generate_with_gemini">>

\* judges[current_judge_idx](judge_prompt); Python indexes from 0
CallJudge(idx, outs) ==
    CASE judges[idx + 1] = "generate_with_grok_fast" -> generate_with_grok_fast(outs)
      [] judges[idx + 1] = "generate_with_tongyi" -> generate_with_tongyi(outs)
      [] OTHER -> generate_with_gemini(outs)

\* Mutant of NextJudge: the index does not advance.
NextJudge_Stuck(idx) == idx

\* `current_judge_idx = (current_judge_idx + 1) % len(judges)`
NextJudge(idx) == (idx + 1) % Len(judges)

\* judged_data before the loop's first assignment to it
Unbound == [unbound |-> TRUE]

\* `return None, None`
ReturnNone == [none |-> TRUE, prompts |-> <<>>, inscriptions |-> <<>>]

\* `return judged_data["prompts"], judged_data["inscriptions"]`
ReturnPair(data) == [none |-> FALSE, prompts |-> data.prompts, inscriptions |-> data.inscriptions]

\* `"approved" in judged_data and judged_data["approved"]`
Approved(judged_data) ==
    "approved" \in DOMAIN judged_data /\ judged_data.approved = TRUE

\* The dict built at lines 190-193
CorrectedData(judged_data) ==
    [prompts |-> judged_data.prompts, inscriptions |-> judged_data.inscriptions]

PipeEntry(meta_prompt) ==
    [pc |-> "start", meta_prompt |-> meta_prompt, initial_data |-> Unbound,
     previous_output |-> Unbound, current_judge_idx |-> 0, iteration |-> 0, judged_data |-> Unbound,
     ret |-> ReturnNone, exc |-> "none", attempts |-> 0, log |-> <<>>]

\* Lines 198-201, after the loop has run out
AfterLoop(p) ==
    CASE p.judged_data = Unbound ->
            [p EXCEPT !.pc = "raised", !.exc = "UnboundLocalError"]
      \* `"prompts" in judged_data` with judged_data None
      [] p.judged_data = NoneVal ->
            [p EXCEPT !.pc = "raised", !.exc = "TypeError"]
      [] {"prompts", "inscriptions"} \subseteq DOMAIN p.judged_data ->
            [p EXCEPT !.pc = "returned",
                      !.ret = ReturnPair(p.judged_data)]
      [] OTHER -> [p EXCEPT !.pc = "returned", !.ret = ReturnNone]

\* `for iteration in range(max_iter)`: go round again, or leave the loop
LoopOrExit(p) ==
    IF p.iteration < max_iter THEN p ELSE AfterLoop(p)

\* Mutant of PipeStart: the `if not initial_data` test is missing, so a failed
\* primary generation goes on to the judges.
PipeStart_NoFailureCheck(p, res) ==
    LET q == [p EXCEPT !.attempts = @ + res.calls]
    IN  CASE res.pc = "raised" -> [q EXCEPT !.pc = "raised", !.exc = res.exc]
          [] OTHER ->
                LoopOrExit([q EXCEPT !.pc = "judging",
                                     !.initial_data = res.ret,
                                     !.previous_output = json_dumps(res.ret),
                                     !.current_judge_idx = 0,
                                     !.iteration = 0])

\* Lines 167-175; `res` is how generate_with_gemini(meta_prompt) ended
PipeStart(p, res) ==
    LET q == [p EXCEPT !.attempts = @ + res.calls]
    IN  CASE res.pc = "raised" -> [q EXCEPT !.pc = "raised", !.exc = res.exc]
          \* `if not initial_data`
          [] res.ret = NoneVal ->
                [q EXCEPT !.initial_data = NoneVal,
                          !.pc = "returned", !.ret = ReturnNone]
          [] OTHER ->
                LoopOrExit([q EXCEPT !.pc = "judging",
                                     !.initial_data = res.ret,
                                     !.previous_output = json_dumps(res.ret),
                                     !.current_judge_idx = 0,
                                     !.iteration = 0])

\* Mutant of JudgeStep: on approval the batch that was submitted to the judge
\* is returned instead of the verdict's own prompts and inscriptions.
JudgeStep_ReturnsSubmitted(p, res) ==
    LET judge_prompt == create_judge_prompt(p.previous_output, p.meta_prompt)
        entry == [iteration |-> p.iteration + 1,
                  judge |-> judges[p.current_judge_idx + 1],
                  prompt |-> judge_prompt,
                  result |-> IF res.pc = "raised" THEN [raised |-> res.exc] ELSE res.ret]
        q == [p EXCEPT !.attempts = @ + res.calls, !.log = Append(@, entry)]
    IN  CASE res.pc = "raised" -> [q EXCEPT !.pc = "raised", !.exc = res.exc]
          [] res.ret = NoneVal ->
                LoopOrExit([q EXCEPT !.judged_data = NoneVal,
                                     !.current_judge_idx = NextJudge(@),
                                     !.iteration = @ + 1])
          [] Approved(res.ret) ->
                [q EXCEPT !.judged_data = res.ret,
                          !.pc = "returned",
                          !.ret = ReturnPair(p.previous_output.text)]
          [] OTHER ->
                LoopOrExit([q EXCEPT !.judged_data = res.ret,
                                     !.previous_output = json_dumps(CorrectedData(res.ret)),
                                     !.current_judge_idx = NextJudge(@),
                                     !.iteration = @ + 1])

\* Mutant of JudgeStep: a failed judge call throws the corrections away, the
\* next judge is given the primary generation's output again.
JudgeStep_FailureResetsOutput(p, res) ==
    LET judge_prompt == create_judge_prompt(p.previous_output, p.meta_prompt)
        entry == [iteration |-> p.iteration + 1,
                  judge |-> judges[p.current_judge_idx + 1],
                  prompt |-> judge_prompt,
                  result |-> IF res.pc = "raised" THEN [raised |-> res.exc] ELSE res.ret]
        q == [p EXCEPT !.attempts = @ + res.calls, !.log = Append(@, entry)]
    IN  CASE res.pc = "raised" -> [q EXCEPT !.pc = "raised", !.exc = res.exc]
          [] res.ret = NoneVal ->
                LoopOrExit([q EXCEPT !.judged_data = NoneVal,
                                     !.previous_output = json_dumps(p.initial_data),
                                     !.current_judge_idx = NextJudge(@),
                                     !.iteration = @ + 1])
          [] Approved(res.ret) ->
                [q EXCEPT !.judged_data = res.ret,
                          !.pc = "returned",
                          !.ret = ReturnPair(res.ret)]
          [] OTHER ->
                LoopOrExit([q EXCEPT !.judged_data = res.ret,
                                     !.previous_output = json_dumps(CorrectedData(res.ret)),
                                     !.current_judge_idx = NextJudge(@),
                                     !.iteration = @ + 1])

\* One iteration of the judge loop, lines 177-196; `res` is how the call of
\* judges[current_judge_idx] ended.  The log keeps, for each judge invocation,
\* who was asked what and what came back.
JudgeStep(p, res) ==
    LET judge_prompt == create_judge_prompt(p.previous_output, p.meta_prompt)
        entry == [iteration |-> p.iteration + 1,
                  judge |-> judges[p.current_judge_idx + 1],
                  prompt |-> judge_prompt,
                  result |-> IF res.pc = "raised" THEN [raised |-> res.exc] ELSE res.ret]
        q == [p EXCEPT !.attempts = @ + res.calls, !.log = Append(@, entry)]
    IN  CASE res.pc = "raised" -> [q EXCEPT !.pc = "raised", !.exc = res.exc]
          \* `if not judged_data`
          [] res.ret = NoneVal ->
                LoopOrExit([q EXCEPT !.judged_data = NoneVal,
                                     !.current_judge_idx = NextJudge(@),
                                     !.iteration = @ + 1])
          [] Approved(res.ret) ->
                [q EXCEPT !.judged_data = res.ret,
                          !.pc = "returned",
                          !.ret = ReturnPair(res.ret)]
          [] OTHER ->
                LoopOrExit([q EXCEPT !.judged_data = res.ret,
                                     !.previous_output = json_dumps(CorrectedData(res.ret)),
                                     !.current_judge_idx = NextJudge(@),
                                     !.iteration = @ + 1])

RECURSIVE PipeRun(_, _)
PipeRun(p, script) ==
    CASE p.pc = "start" ->
            PipeRun(PipeStart(p, generate_with_gemini(script.primary)), script)
      [] p.pc = "judging" ->
            PipeRun(JudgeStep(p, CallJudge(p.current_judge_idx,
                                           script.judges[p.iteration + 1])), script)
      [] OTHER -> p

\* The whole of iterative_generate_prompts(meta_prompt); `script` is what the
\* backends do: script.primary for the primary generation, script.judges[i]
\* for the judge of iteration i.
iterative_generate_prompts(meta_prompt, script) == PipeRun(PipeEntry(meta_prompt), script)

(***************************************************************************)
(* generate_dataset                                                        *)
(***************************************************************************)
\* `f"{lang.replace(' ', '_').lower()}_prompts.json"`
Filename(lang) ==
    CASE lang = "English" -> "english_prompts.json"
      [] lang = "Mandarin Chinese" -> "mandarin_chinese_prompts.json"

Filenames == {Filename(LANGUAGES[i]) : i \in 1..Len(LANGUAGES)}

\* What is stored under a filename
NoFile == [exists |-> FALSE]
\* open(filename, 'w') has truncated the file and json.dump has not completed
TruncatedFile == [exists |-> TRUE, content |-> [truncated |-> TRUE]]
\* The keys of prompt_object in the order the dict literal of lines 258-268
\* inserts them, which is the order json.dump writes them in
PromptObjectKeys ==
    <<"language", "text_length_category", "text_quantity", "scenario", "text_variation",
      "background_type", "layout_style", "prompt_text", "inscriptions">>

\* json.dump(lang_prompts, f, indent=2, ensure_ascii=False): the document is an
\* array with one object per record, an object being its members (key and
\* value) in insertion order.  Strings, integers and arrays of strings are
\* written as themselves.
json_dump(lang_prompts) ==
    [text |-> [i \in 1..Len(lang_prompts) |->
                  [k \in 1..Len(PromptObjectKeys) |->
                      <<PromptObjectKeys[k], lang_prompts[i][PromptObjectKeys[k]]>>]]]

\* Mutant of DumpedFile: the file is written in an append-only fashion, holding
\* the newest record only.
DumpedFile_LastRecordOnly(lang_prompts) ==
    [exists |-> TRUE, content |-> json_dump(<<lang_prompts[Len(lang_prompts)]>>)]

\* json.dump(lang_prompts, f, ...) completed
DumpedFile(lang_prompts) == [exists |-> TRUE, content |-> json_dump(lang_prompts)]

\* json.load raises JSONDecodeError on a text that is not a complete document
LoadRaises(file) == "text" \notin DOMAIN file.content

\* json.loads of one object: a dict from the member keys to their values (the
\* last member wins when a key is repeated)
ObjectOf(members) ==
    [key \in {members[k][1] : k \in 1..Len(members)} |->
        LET last == CHOOSE k \in 1..Len(members) :
                        /\ members[k][1] = key
                        /\ \A j \in (k + 1)..Len(members) : members[j][1] # key
        IN  members[last][2]]

\* json.load(f): the list of the dicts of the document
json_load(file) == [i \in 1..Len(file.content.text) |-> ObjectOf(file.content.text[i])]

\* Lines 209-220
LoadLangPrompts(file) ==
    IF ~file.exists THEN <<>>
    ELSE IF LoadRaises(file) THEN <<>>
    ELSE json_load(file)

\* Mutant of KeyOf: scenario and text_variation in the other order than in
\* current_combo.
KeyOf_Swapped(rec) ==
    <<rec.language, rec.text_length_category, rec.text_quantity, rec.text_variation,
      rec.scenario, rec.background_type, rec.layout_style>>

\* The tuple built for each loaded record at lines 223-224
KeyOf(rec) ==
    <<rec.language, rec.text_length_category, rec.text_quantity, rec.scenario,
      rec.text_variation, rec.background_type, rec.layout_style>>

\* Lines 222-226
ProcessedCombos(lang_prompts) == {KeyOf(lang_prompts[i]) : i \in 1..Len(lang_prompts)}

\* How many tuples of the product share one entry of axis j: the product of
\* the lengths of the axes to its right
RECURSIVE Stride(_, _)
Stride(axes, j) ==
    IF j >= Len(axes) THEN 1 ELSE Len(axes[j + 1]) * Stride(axes, j + 1)

\* The same for an odometer whose leftmost wheel turns fastest
RECURSIVE StrideFromLeft(_, _)
StrideFromLeft(axes, j) ==
    IF j <= 1 THEN 1 ELSE Len(axes[j - 1]) * StrideFromLeft(axes, j - 1)

\* Mutant of product: the leftmost axis advances fastest.
product_LeftmostFastest(axes) ==
    [k \in 1..(Len(axes[1]) * Stride(axes, 1)) |->
        [j \in 1..Len(axes) |->
            axes[j][(((k - 1) \div StrideFromLeft(axes, j)) % Len(axes[j])) + 1]]]

\* itertools.product(*axes): the tuples in the order of nested for loops, the
\* rightmost axis advancing fastest
product(axes) ==
    [k \in 1..(Len(axes[1]) * Stride(axes, 1)) |->
        [j \in 1..Len(axes) |->
            axes[j][(((k - 1) \div Stride(axes, j)) % Len(axes[j])) + 1]]]

\* The arguments of itertools.product at lines 229-232, TEXT_LENGTHS.items()
\* being the (category, description) pairs
GridAxes == <<TEXT_LENGTHS, TEXT_QUANTITIES, SCENARIOS, TEXT_VARIATIONS, BACKGROUNDS, LAYOUTS>>

\* Lines 229-232
combinations == product(GridAxes)

\* Line 235
CurrentCombo(lang, c) == <<lang, c[1][1], c[2], c[3], c[4], c[5], c[6]>>

\* Line 246
MetaPromptFor(lang, c, num_to_generate) ==
    create_meta_prompt(lang, c[3], c[1][1], c[1][2], c[2], c[4], c[5], c[6], num_to_generate)

\* Mutant of PromptObject: the scenario is stored under "text_variation" and the
\* variation under "scenario".
PromptObject_SwappedFields(lang, c, prompt_texts_list, inscriptions_list) ==
    [language |-> lang, text_length_category |-> c[1][1], text_quantity |-> c[2],
     scenario |-> c[4], text_variation |-> c[3], background_type |-> c[5],
     layout_style |-> c[6], prompt_text |-> prompt_texts_list,
     inscriptions |-> inscriptions_list]

\* Lines 258-268
PromptObject(lang, c, prompt_texts_list, inscriptions_list) ==
    [language |-> lang, text_length_category |-> c[1][1], text_quantity |-> c[2],
     scenario |-> c[3], text_variation |-> c[4], background_type |-> c[5],
     layout_style |-> c[6], prompt_text |-> prompt_texts_list,
     inscriptions |-> inscriptions_list]

Min(a, b) == IF a < b THEN a ELSE b

\* Mutant of NumToGenerate: every request asks for one item.
NumToGenerate_One(collected) == 1

\* Mutant of NumToGenerate: every request asks for a full batch.
NumToGenerate_AlwaysBatchSize(collected) == BATCH_SIZE

\* Line 245
NumToGenerate(collected) == Min(BATCH_SIZE, NUM_PROMPTS_PER_COMBO - collected)

\* Lines 244-251 for a target and a batch size given as parameters, every
\* sub-batch succeeding: the sizes requested, in order, from `collected` on.
RECURSIVE SubBatchSizes(_, _, _)
SubBatchSizes(target, batch_size, collected) ==
    IF collected < target
       THEN LET num_to_generate == Min(batch_size, target - collected)
            IN  <<num_to_generate>>
                    \o SubBatchSizes(target, batch_size, collected + num_to_generate)
       ELSE <<>>

\* Mutant of BatchAccepted: only the prompts' length is compared with the
\* requested size.
BatchAccepted_PromptsOnly(ret, num_to_generate) ==
    /\ ~ret.none
    /\ ret.prompts # <<>>
    /\ ret.inscriptions # <<>>
    /\ Len(ret.prompts) = num_to_generate

\* Line 248; `ret` is the returned pair.  The truth value of None and of the
\* empty list is false.
BatchAccepted(ret, num_to_generate) ==
    /\ ~ret.none
    /\ ret.prompts # <<>>
    /\ ret.inscriptions # <<>>
    /\ Len(ret.prompts) = num_to_generate
    /\ Len(ret.inscriptions) = num_to_generate

\* Mutant of ComboComplete: whatever was collected is saved.
ComboComplete_NonEmpty(prompt_texts_list) == Len(prompt_texts_list) > 0

\* Line 257
ComboComplete(prompt_texts_list) == Len(prompt_texts_list) = NUM_PROMPTS_PER_COMBO

(***************************************************************************)
(* Specification of call_api_with_retry on its own                         *)
(***************************************************************************)
ErrorObject == [error |-> "quota"]
RetryObjects ==
    {ErrorObject,
     [prompts |-> MkList("pA", 1)],
     [inscriptions |-> MkList("iA", 1)]}
    \cup {[prompts |-> MkList(t, 1), inscriptions |-> MkList("iA", 1)] : t \in {"pA", "pB"}}
    \cup {[prompts |-> MkList(t, 1), inscriptions |-> MkList("iA", 1),
           approved |-> a, reason |-> ""] : t \in {"pA", "pB"}, a \in BOOLEAN}

RetryResponses ==
    {Returns(d) : d \in RetryObjects}
    \cup {ReturnsScalar}
    \cup {Raises(e) : e \in {"ValueError", "JSONDecodeError", "APIConnectionError"}}

InitRetry ==
    /\ call_func \in [1..retries -> RetryResponses]
    /\ retry = RetryStart
    /\ pipe = NoneVal
    /\ files = NoneVal
    /\ ds = NoneVal
    /\ hist = NoneVal

RetryAttempt ==
    /\ retry.pc = "loop"
    /\ retry' = AttemptStep(retry, call_func[retry.attempt + 1])
    /\ UNCHANGED <<call_func, pipe, files, ds, hist>>

NextRetry == RetryAttempt

SpecRetry == InitRetry /\ [][NextRetry]_vars

(***************************************************************************)
(* Specification of iterative_generate_prompts on its own                  *)
(***************************************************************************)
\* What a backend may answer when asked for n prompts: the two arrays of n
\* items (two different texts), or arrays of different lengths; with no
\* "approved" key, or approved false or true.
Payloads(n) ==
    {[prompts |-> MkList("pA", n), inscriptions |-> MkList("iA", n)],
     [prompts |-> MkList("pB", n), inscriptions |-> MkList("iB", n)],
     [prompts |-> MkList("pA", n), inscriptions |-> MkList("iA", n - 1)]}

Verdicts(n) ==
    Payloads(n)
    \cup {[prompts |-> d.prompts, inscriptions |-> d.inscriptions,
           approved |-> a, reason |-> IF a THEN "" ELSE "fix"] :
             d \in Payloads(n), a \in BOOLEAN}

BackendResponses(n) ==
    {Returns(d) : d \in Verdicts(n)}
    \cup {Returns(ErrorObject), Raises("ValueError"), Raises("APIConnectionError")}

\* A backend closure that raises ValueError k times and then keeps answering o
BackendScripts(n) ==
    {[i \in 1..retries |-> IF i <= k THEN Raises("ValueError") ELSE o] :
        k \in 0..(retries - 1), o \in BackendResponses(n)}

SampleMetaPrompt ==
    create_meta_prompt(LANGUAGES[1], SCENARIOS[1], TEXT_LENGTHS[1][1], TEXT_LENGTHS[1][2],
                       TEXT_QUANTITIES[1], TEXT_VARIATIONS[1], BACKGROUNDS[1], LAYOUTS[1],
                       BATCH_SIZE)

InitPipe ==
    /\ pipe = PipeEntry(SampleMetaPrompt)
    /\ call_func = NoneVal
    /\ retry = NoneVal
    /\ files = NoneVal
    /\ ds = NoneVal
    /\ hist = NoneVal

\* line 167: the primary generation
PipePrimary ==
    /\ pipe.pc = "start"
    /\ \E outs \in BackendScripts(pipe.meta_prompt.num_prompts) :
          pipe' = PipeStart(pipe, generate_with_gemini(outs))
    /\ UNCHANGED <<call_func, retry, files, ds, hist>>

\* lines 177-201: one judge iteration
PipeJudge ==
    /\ pipe.pc = "judging"
    /\ \E outs \in BackendScripts(pipe.meta_prompt.num_prompts) :
          pipe' = JudgeStep(pipe, CallJudge(pipe.current_judge_idx, outs))
    /\ UNCHANGED <<call_func, retry, files, ds, hist>>

NextPipe == PipePrimary \/ PipeJudge

SpecPipe == InitPipe /\ [][NextPipe]_vars

(***************************************************************************)
(* Specification of generate_dataset: the process is run up to MaxRuns     *)
(* times against the same directory; a run ends by reaching line 280, by   *)
(* an exception leaving iterative_generate_prompts, or by being            *)
(* interrupted.                                                            *)
(***************************************************************************)
\* How many times the process is started
MaxRuns == 2

Always(o) == [i \in 1..retries |-> o]

\* What the primary backend and the judges may answer to one pipeline call
PrimaryResponses(n) ==
    {Raises("ValueError"), Raises("APIConnectionError"),
     Returns([prompts |-> MkList("pA", n), inscriptions |-> MkList("iA", n)])}

JudgeResponses(n) ==
    {Raises("ValueError"), Raises("APIConnectionError")}
    \cup {Returns([prompts |-> MkList("pA", n), inscriptions |-> MkList("iA", m),
                   approved |-> a, reason |-> IF a THEN "" ELSE "fix"]) :
             m \in {n - 1, n}, a \in BOOLEAN}
    \cup {Returns([prompts |-> MkList("pA", n - 1), inscriptions |-> MkList("iA", n - 1),
                   approved |-> TRUE, reason |-> ""]),
          Returns([prompts |-> MkList("pB", n), inscriptions |-> MkList("iB", n),
                   approved |-> TRUE, reason |-> ""])}

\* A closure that raises ValueError on its first k invocations and then does o
AfterFailures(k, o) == [i \in 1..retries |-> IF i <= k THEN Raises("ValueError") ELSE o]

PipelineScripts(n) ==
    [primary : {AfterFailures(k, o) : k \in {0, retries - 1}, o \in PrimaryResponses(n)},
     judges : [1..max_iter -> {Always(o) : o \in JudgeResponses(n)}]]

\* What the caller sees of a finished pipeline: the returned pair, or the exception
PipeOutcome(p) ==
    [kind |-> p.pc, ret |-> p.ret, exc |-> p.exc]

\* The outcomes of iterative_generate_prompts for a request of n prompts, over
\* all the backend behaviours above (they do not depend on the other
\* parameters of the prompt)
PipelineOutcomes ==
    [n \in 1..BATCH_SIZE |->
        {PipeOutcome(iterative_generate_prompts(
              create_meta_prompt(LANGUAGES[1], SCENARIOS[1], TEXT_LENGTHS[1][1],
                                 TEXT_LENGTHS[1][2], TEXT_QUANTITIES[1], TEXT_VARIATIONS[1],
                                 BACKGROUNDS[1], LAYOUTS[1], n), script)) :
            script \in PipelineScripts(n)}]

ProcessStart ==
    [pc |-> "lang", li |-> 1, lang_prompts |-> <<>>, processed_combos |-> {}, ci |-> 1,
     prompt_texts_list |-> <<>>, inscriptions_list |-> <<>>, total_new_prompts |-> 0,
     exc |-> "none"]

Init ==
    /\ files = [f \in Filenames |-> NoFile]
    /\ ds = ProcessStart
    /\ hist = [run |-> 1, calls |-> 0, writes |-> 0, sent |-> {},
               start_files |-> [f \in Filenames |-> NoFile],
               persisted |-> {}, persisted_before |-> {}, batch_log |-> <<>>,
               loaded |-> <<>>, completed |-> <<>>]
    /\ call_func = NoneVal
    /\ retry = NoneVal
    /\ pipe = NoneVal

Lang == LANGUAGES[ds.li]

Combo == combinations[ds.ci]

\* The two for loops: the next combination, the next language, or line 280
Advance(d) ==
    IF d.ci < Len(combinations) THEN [d EXCEPT !.ci = @ + 1, !.pc = "combo"]
    ELSE IF d.li < Len(LANGUAGES) THEN [d EXCEPT !.li = @ + 1, !.pc = "lang"]
    ELSE [d EXCEPT !.pc = "done"]

\* Lines 208-232: load the language's file and rebuild processed_combos
StartLanguage ==
    /\ ds.pc = "lang"
    /\ LET loaded == LoadLangPrompts(files[Filename(Lang)])
       IN  /\ ds' = [ds EXCEPT !.lang_prompts = loaded,
                                !.processed_combos = ProcessedCombos(loaded),
                                !.ci = 1,
                                !.pc = "combo"]
           /\ hist' = [hist EXCEPT !.loaded = loaded, !.completed = <<>>]
    /\ UNCHANGED <<files, call_func, retry, pipe>>

\* Lines 234-238: a combination already in the file is skipped
SkipCombo ==
    /\ ds.pc = "combo"
    /\ CurrentCombo(Lang, Combo) \in ds.processed_combos
    /\ ds' = Advance(ds)
    /\ UNCHANGED <<files, hist, call_func, retry, pipe>>

\* Lines 234-243: a new combination starts with empty lists
BeginCombo ==
    /\ ds.pc = "combo"
    /\ CurrentCombo(Lang, Combo) \notin ds.processed_combos
    /\ ds' = [ds EXCEPT !.prompt_texts_list = <<>>, !.inscriptions_list = <<>>,
                        !.pc = "batch"]
    /\ hist' = [hist EXCEPT !.batch_log = <<>>]
    /\ UNCHANGED <<files, call_func, retry, pipe>>

\* Lines 244-255: one iteration of the while loop
SubBatch ==
    /\ ds.pc = "batch"
    /\ LET num_to_generate == NumToGenerate(Len(ds.prompt_texts_list))
           meta_prompt == MetaPromptFor(Lang, Combo, num_to_generate)
       IN  \E out \in PipelineOutcomes[num_to_generate] :
             /\ hist' = [hist EXCEPT
                            !.calls = @ + 1,
                            !.sent = @ \cup {CurrentCombo(Lang, Combo)},
                            !.batch_log = Append(@, [meta_prompt |-> meta_prompt,
                                                     requested |-> num_to_generate,
                                                     outcome |-> out])]
             /\ ds' =
                  IF out.kind = "raised"
                     THEN [ProcessStart EXCEPT !.pc = "crashed", !.exc = out.exc]
                  ELSE IF BatchAccepted(out.ret, num_to_generate)
                     THEN LET extended ==
                                 [ds EXCEPT !.prompt_texts_list = @ \o out.ret.prompts,
                                            !.inscriptions_list = @ \o out.ret.inscriptions]
                          IN  IF Len(extended.prompt_texts_list) < NUM_PROMPTS_PER_COMBO
                                 THEN extended
                                 ELSE [extended EXCEPT !.pc = "finish"]
                  ELSE [ds EXCEPT !.pc = "finish"]
    /\ UNCHANGED <<files, call_func, retry, pipe>>

\* Lines 257-272 and 275-278: a complete combination is appended to
\* lang_prompts and the file is opened for writing, which truncates it; an
\* incomplete one is dropped
FinishCombo ==
    /\ ds.pc = "finish"
    /\ IF ComboComplete(ds.prompt_texts_list)
          THEN /\ ds' = [ds EXCEPT
                            !.lang_prompts =
                                Append(@, PromptObject(Lang, Combo, ds.prompt_texts_list,
                                                       ds.inscriptions_list)),
                            !.total_new_prompts = @ + Len(ds.prompt_texts_list),
                            !.pc = "write"]
               /\ files' = [files EXCEPT ![Filename(Lang)] = TruncatedFile]
               /\ hist' = [hist EXCEPT
                              !.writes = @ + 1, !.batch_log = <<>>,
                              !.completed =
                                  Append(@, PromptObject(Lang, Combo, ds.prompt_texts_list,
                                                         ds.inscriptions_list))]
          ELSE /\ ds' = Advance(ds)
               /\ hist' = [hist EXCEPT !.batch_log = <<>>]
               /\ UNCHANGED files
    /\ UNCHANGED <<call_func, retry, pipe>>

\* Lines 273-278: json.dump writes the whole list and the file is closed
DumpFile ==
    /\ ds.pc = "write"
    /\ files' = [files EXCEPT ![Filename(Lang)] = DumpedFile(ds.lang_prompts)]
    /\ hist' = [hist EXCEPT !.persisted = @ \cup ProcessedCombos(ds.lang_prompts)]
    /\ ds' = Advance(ds)
    /\ UNCHANGED <<call_func, retry, pipe>>

Running == ds.pc \in {"lang", "combo", "batch", "finish", "write"}

\* The process is stopped from outside (Ctrl-C, kill, power loss) wherever it
\* is; its memory is gone, the files stay as they are
Interrupt ==
    /\ Running
    /\ ds' = [ProcessStart EXCEPT !.pc = "stopped"]
    /\ UNCHANGED <<files, hist, call_func, retry, pipe>>

\* Line 283: the process is started again in the same directory
StartRun ==
    /\ ~Running
    /\ hist.run < MaxRuns
    /\ ds' = ProcessStart
    /\ hist' = [hist EXCEPT !.run = @ + 1, !.calls = 0, !.writes = 0, !.sent = {},
                            !.start_files = files,
                            !.persisted_before = hist.persisted,
                            !.batch_log = <<>>,
                            !.loaded = <<>>, !.completed = <<>>]
    /\ UNCHANGED <<files, call_func, retry, pipe>>

Next ==
    \/ StartLanguage
    \/ SkipCombo
    \/ BeginCombo
    \/ SubBatch
    \/ FinishCombo
    \/ DumpFile
    \/ Interrupt
    \/ StartRun

Spec == Init /\ [][Next]_vars

\* The steps of the process itself: a single thread that keeps executing until
\* it returns or an exception ends it
ProgramStep ==
    \/ StartLanguage
    \/ SkipCombo
    \/ BeginCombo
    \/ SubBatch
    \/ FinishCombo
    \/ DumpFile

\* What a language's file may be when the process is started: absent, cut
\* short by an interrupted write, or holding the records of the first k
\* combinations of the language
StoredRecord(lang, c) ==
    PromptObject(lang, c, MkList("pA", NUM_PROMPTS_PER_COMBO),
                 MkList("iA", NUM_PROMPTS_PER_COMBO))

StartFiles(lang) ==
    {NoFile, TruncatedFile}
    \cup {DumpedFile([c \in 1..k |-> StoredRecord(lang, combinations[c])]) :
             k \in 0..Len(combinations)}

\* One run of generate_dataset, left alone, from any such directory
InitLive ==
    /\ files \in {fs \in [Filenames -> UNION {StartFiles(LANGUAGES[l]) : l \in 1..Len(LANGUAGES)}] :
                     \A l \in 1..Len(LANGUAGES) :
                         fs[Filename(LANGUAGES[l])] \in StartFiles(LANGUAGES[l])}
    /\ ds = ProcessStart
    /\ hist = [run |-> 1, calls |-> 0, writes |-> 0, sent |-> {},
               start_files |-> files,
               persisted |-> {}, persisted_before |-> {}, batch_log |-> <<>>,
               loaded |-> <<>>, completed |-> <<>>]
    /\ call_func = NoneVal
    /\ retry = NoneVal
    /\ pipe = NoneVal

NextLive == ProgramStep

\* The process is a single thread that does not pause for ever while it has a
\* step to take
SpecLive == InitLive /\ [][NextLive]_vars /\ WF_vars(NextLive)

(***************************************************************************)
(* Claims about call_api_with_retry (checked under SpecRetry)              *)
(***************************************************************************)
\* An invocation of call_func that does not deliver a usable result: it
\* raises, or returns an object without "prompts" or without "inscriptions".
Fails(out) ==
    \/ out.kind = "raise"
    \/ out.kind = "json" /\ ~Accepts(out.data)

Valid(out) == out.kind = "json" /\ Accepts(out.data)

RetryFinished == retry.pc # "loop"

\* C5: a call that fails (raises, or returns a result missing prompts or
\* inscriptions) on its first k attempts, k < retries, and then returns a valid
\* result makes call_api_with_retry return that result after exactly k+1
\* invocations of the call.
C5_FirstValidAfterKFailures ==
    RetryFinished =>
        \A k \in 0..(retries - 1) :
            (/\ \A i \in 1..k : Fails(call_func[i])
             /\ Valid(call_func[k + 1]))
            => /\ retry.pc = "returned"
               /\ retry.ret = call_func[k + 1].data
               /\ retry.calls = k + 1

\* C6: a call that always fails makes call_api_with_retry return None after
\* exactly `retries` invocations and retries-1 sleeps, the i-th sleep lasting
\* delay*i.
C6_AlwaysFailingReturnsNone ==
    (RetryFinished /\ \A i \in 1..retries : Fails(call_func[i]))
    => /\ retry.pc = "returned"
       /\ retry.ret = NoneVal
       /\ retry.calls = retries
       /\ retry.sleeps = [i \in 1..(retries - 1) |-> delay * i]

\* A transient backend error on one attempt: a transport failure, a malformed
\* or non-JSON response, a response missing required fields.
TransientError(out) == ~Valid(out)

\* C7: no transient backend error escapes call_api_with_retry as an exception,
\* and a call that meets one on every attempt ends with the None signal.
C7_TransientErrorsNeverEscape ==
    /\ retry.pc # "raised"
    /\ (RetryFinished /\ \A i \in 1..retries : TransientError(call_func[i]))
       => retry.ret = NoneVal

\* What does hold of the code: the failures it handles are the exceptions it
\* catches and the objects missing a key.
HandledFailure(out) ==
    \/ out.kind = "raise" /\ Catches(out.exc)
    \/ out.kind = "json" /\ ~Accepts(out.data)

RetryHandledFailuresOnly ==
    RetryFinished =>
        /\ \A k \in 0..(retries - 1) :
              (/\ \A i \in 1..k : HandledFailure(call_func[i])
               /\ Valid(call_func[k + 1]))
              => /\ retry.pc = "returned"
                 /\ retry.ret = call_func[k + 1].data
                 /\ retry.calls = k + 1
        /\ (\A i \in 1..retries : HandledFailure(call_func[i]))
              => /\ retry.pc = "returned"
                 /\ retry.ret = NoneVal
                 /\ retry.calls = retries
                 /\ retry.sleeps = [i \in 1..(retries - 1) |-> delay * i]

(***************************************************************************)
(* Claims about iterative_generate_prompts (checked under SpecPipe)        *)
(***************************************************************************)
\* The judge call returned None
JudgeFailed(result) == result = NoneVal

\* The judge call returned a verdict that does not approve
JudgeCorrected(result) == Accepts(result) /\ ~Approved(result)

\* The judge call returned a verdict that approves
JudgeApproved(result) == Accepts(result) /\ Approved(result)

PayloadOf(result) == ReturnPair(result)

\* C8: if the primary generation fails (generate_with_gemini returns None),
\* iterative_generate_prompts returns (None, None) and no judge is invoked.
C8_PrimaryFailureSkipsJudges ==
    pipe.initial_data = NoneVal
    => /\ pipe.pc = "returned"
       /\ pipe.ret = ReturnNone
       /\ pipe.log = <<>>

C8_Witness ==
    /\ pipe.initial_data = NoneVal
    /\ pipe.pc = "returned"
    /\ pipe.attempts = retries

\* C9: after a primary success, if the judges of iterations 1..k-1 each fail or
\* disapprove and the judge of iteration k approves, the pipeline has returned
\* exactly the prompts and inscriptions of the k-th verdict, and exactly k
\* judges were invoked.
C9_ReturnsFirstApproval ==
    \A k \in 1..max_iter :
        (/\ Len(pipe.log) >= k
         /\ \A i \in 1..(k - 1) :
               JudgeFailed(pipe.log[i].result) \/ JudgeCorrected(pipe.log[i].result)
         /\ JudgeApproved(pipe.log[k].result))
        => /\ pipe.pc = "returned"
           /\ pipe.ret = PayloadOf(pipe.log[k].result)
           /\ Len(pipe.log) = k

\* first judge fails, second approves
C9_Witness ==
    /\ Len(pipe.log) = 2
    /\ JudgeFailed(pipe.log[1].result)
    /\ JudgeApproved(pipe.log[2].result)
    /\ pipe.pc = "returned"
    /\ pipe.ret = PayloadOf(pipe.log[2].result)

\* The verdict of the last iteration that corrected
RECURSIVE LastCorrection(_, _)
LastCorrection(log, i) ==
    IF i = 0 THEN ReturnNone
    ELSE IF JudgeCorrected(log[i].result) THEN PayloadOf(log[i].result)
    ELSE LastCorrection(log, i - 1)

\* C10: after a primary success, when the max_iter judge outcomes hold no
\* approval and at least one correction, the others being failed judge calls,
\* the pipeline returns the most recent corrected prompts and inscriptions.
C10_BudgetExhaustedReturnsLastCorrection ==
    (/\ Len(pipe.log) = max_iter
     /\ \A i \in 1..max_iter :
           JudgeFailed(pipe.log[i].result) \/ JudgeCorrected(pipe.log[i].result)
     /\ \E i \in 1..max_iter : JudgeCorrected(pipe.log[i].result))
    => /\ pipe.pc = "returned"
       /\ pipe.ret = LastCorrection(pipe.log, max_iter)

\* What does hold of the code: when the last of the max_iter verdicts is a
\* correction, it is returned.
PipeLastVerdictCorrection ==
    (/\ Len(pipe.log) = max_iter
     /\ \A i \in 1..max_iter :
           JudgeFailed(pipe.log[i].result) \/ JudgeCorrected(pipe.log[i].result)
     /\ JudgeCorrected(pipe.log[max_iter].result))
    => /\ pipe.pc = "returned"
       /\ pipe.ret = PayloadOf(pipe.log[max_iter].result)

\* C11: after a primary success, if the judge call fails (returns None) on
\* every one of the max_iter iterations, iterative_generate_prompts returns
\* (None, None) to its caller.
C11_AllJudgesFailReturnsNone ==
    (/\ Len(pipe.log) = max_iter
     /\ \A i \in 1..max_iter : JudgeFailed(pipe.log[i].result))
    => /\ pipe.pc = "returned"
       /\ pipe.ret = ReturnNone

\* A judge response or backend response whose two arrays have the length of
\* the batch that was asked for
WellSized(data, n) ==
    /\ Len(data.prompts) = n
    /\ Len(data.inscriptions) = n

\* C12: a response or verdict whose prompts and inscriptions differ in length
\* from each other or from the size of the batch is treated as a failed call:
\* call_api_with_retry does not hand it to the pipeline, the pipeline does not
\* return it, and it does not become the output submitted to the next judge.
C12_MismatchedLengthsRejected ==
    LET n == pipe.meta_prompt.num_prompts
    IN  /\ (pipe.initial_data # Unbound /\ pipe.initial_data # NoneVal)
              => WellSized(pipe.initial_data, n)
        /\ \A i \in 1..Len(pipe.log) :
              Accepts(pipe.log[i].result) => WellSized(pipe.log[i].result, n)
        /\ (pipe.pc = "returned" /\ ~pipe.ret.none) => WellSized(pipe.ret, n)
        /\ pipe.previous_output # Unbound => WellSized(pipe.previous_output.text, n)

\* The output that iteration i of the judge loop has to submit, from what the
\* earlier iterations brought: the primary generation's output at first, the
\* same output again after a failed judge call, the verdict's prompts and
\* inscriptions after a verdict that does not approve.
ExpectedSubmission(i) ==
    IF i = 1 THEN json_dumps(pipe.initial_data)
    ELSE IF JudgeCorrected(pipe.log[i - 1].result)
            THEN json_dumps(CorrectedData(pipe.log[i - 1].result))
            ELSE pipe.log[i - 1].prompt.previous_output

\* C18: the output submitted to the judge of iteration i is the latest accepted
\* candidate: a failed judge call leaves it as it was, a verdict that does not
\* approve replaces it with exactly the verdict's prompts and inscriptions, and
\* nothing else changes it.
C18_JudgeReceivesLatestCandidate ==
    /\ \A i \in 1..Len(pipe.log) :
          pipe.log[i].prompt = create_judge_prompt(ExpectedSubmission(i), pipe.meta_prompt)
    /\ (pipe.pc = "judging" /\ Len(pipe.log) >= 1)
          => pipe.previous_output = ExpectedSubmission(Len(pipe.log) + 1)

\* a correction, then a failed judge: the third judge is given the correction
C18_Witness ==
    /\ Len(pipe.log) = 3
    /\ JudgeCorrected(pipe.log[1].result)
    /\ JudgeFailed(pipe.log[2].result)
    /\ pipe.log[3].prompt.previous_output = json_dumps(CorrectedData(pipe.log[1].result))
    /\ pipe.log[3].prompt.previous_output # json_dumps(pipe.initial_data)

\* C19: the judge invoked at iteration i (counted from 1) is
\* judges[(i-1) mod len(judges)] in the order Grok-fast, Tongyi, Gemini, the
\* index advancing by one with wrap-around after a failed judge call and after
\* a verdict that does not approve; no judge is invoked in two consecutive
\* iterations.
C19_JudgeRotation ==
    /\ judges[1] = "generate_with_grok_fast"
    /\ judges[2] = "generate_with_tongyi"
    /\ judges[3] = "generate_with_gemini"
    /\ \A i \in 1..Len(pipe.log) :
          /\ pipe.log[i].iteration = i
          /\ pipe.log[i].judge = judges[((i - 1) % Len(judges)) + 1]
    /\ \A i \in 1..(Len(pipe.log) - 1) : pipe.log[i].judge # pipe.log[i + 1].judge
    /\ pipe.pc = "judging" => pipe.current_judge_idx = Len(pipe.log) % Len(judges)
    /\ \A idx \in 0..(Len(judges) - 1) :
          NextJudge(idx) = IF idx = Len(judges) - 1 THEN 0 ELSE idx + 1

\* a failed judge, a correction, then Gemini is asked and the index wraps round
C19_Witness ==
    /\ Len(pipe.log) = Len(judges)
    /\ JudgeFailed(pipe.log[1].result)
    /\ JudgeCorrected(pipe.log[2].result)
    /\ JudgeCorrected(pipe.log[3].result)
    /\ pipe.log[1].judge = "generate_with_grok_fast"
    /\ pipe.log[2].judge = "generate_with_tongyi"
    /\ pipe.log[3].judge = "generate_with_gemini"
    /\ pipe.current_judge_idx = 0

(***************************************************************************)
(* Claims about generate_dataset (checked under Spec)                      *)
(***************************************************************************)
IsDumped(file) == file.exists /\ "text" \in DOMAIN file.content

\* The records a file holds (none when it is absent or unreadable)
RecordsIn(file) == IF IsDumped(file) THEN json_load(file) ELSE <<>>

\* C1: every record appended to a language's list and written to its file has
\* exactly NUM_PROMPTS_PER_COMBO prompts and as many inscriptions.
C1_RecordsHaveConfiguredTotal ==
    /\ \A i \in 1..Len(ds.lang_prompts) :
          /\ Len(ds.lang_prompts[i].prompt_text) = NUM_PROMPTS_PER_COMBO
          /\ Len(ds.lang_prompts[i].inscriptions) = NUM_PROMPTS_PER_COMBO
    /\ \A f \in Filenames :
          LET stored == RecordsIn(files[f])
          IN  \A i \in 1..Len(stored) :
                 /\ Len(stored[i].prompt_text) = NUM_PROMPTS_PER_COMBO
                 /\ Len(stored[i].inscriptions) = NUM_PROMPTS_PER_COMBO

\* a record assembled from more than one sub-batch has been written
C1_Witness ==
    /\ NUM_PROMPTS_PER_COMBO > BATCH_SIZE
    /\ \E f \in Filenames : Len(RecordsIn(files[f])) >= 1
    /\ hist.writes >= 1

\* The sub-batch came back failed (None) or with a length other than requested
SubBatchBad(entry) ==
    /\ entry.outcome.kind = "returned"
    /\ \/ entry.outcome.ret.none
       \/ Len(entry.outcome.ret.prompts) # entry.requested
       \/ Len(entry.outcome.ret.inscriptions) # entry.requested

SubBatchGood(entry) ==
    /\ entry.outcome.kind = "returned"
    /\ ~entry.outcome.ret.none
    /\ Len(entry.outcome.ret.prompts) = entry.requested
    /\ Len(entry.outcome.ret.inscriptions) = entry.requested

\* The combination a sub-batch was requested for
ComboOfRequest(entry) ==
    <<entry.meta_prompt.language, entry.meta_prompt.length_category,
      entry.meta_prompt.quantity, entry.meta_prompt.scenario,
      entry.meta_prompt.variation, entry.meta_prompt.background,
      entry.meta_prompt.layout>>

RecordIsFor(rec, combo) ==
    /\ rec.language = combo[1]
    /\ rec.text_length_category = combo[2]
    /\ rec.text_quantity = combo[3]
    /\ rec.scenario = combo[4]
    /\ rec.text_variation = combo[5]
    /\ rec.background_type = combo[6]
    /\ rec.layout_style = combo[7]

\* C2: once a sub-batch of the combination in progress has come back failed or
\* with the wrong length, no step appends a record for that combination or
\* writes a file, however many sub-batches had been collected before.
C2_AllOrNothing ==
    [][\A i \in 1..Len(hist.batch_log) :
          SubBatchBad(hist.batch_log[i])
          => /\ files' = files
             /\ \A j \in 1..Len(ds'.lang_prompts) :
                   ~RecordIsFor(ds'.lang_prompts[j], ComboOfRequest(hist.batch_log[i]))]_vars

\* one sub-batch was collected, the next came back bad
C2_Witness ==
    /\ Len(hist.batch_log) = 2
    /\ SubBatchGood(hist.batch_log[1])
    /\ SubBatchBad(hist.batch_log[2])
    /\ ds.pc = "finish"
    /\ Len(ds.prompt_texts_list) = BATCH_SIZE

\* How many items the sub-batches before the i-th were asked for
RECURSIVE RequestedBefore(_, _)
RequestedBefore(log, i) ==
    IF i <= 1 THEN 0 ELSE RequestedBefore(log, i - 1) + log[i - 1].requested

\* ceil(a / b)
CeilDiv(a, b) == (a + b - 1) \div b

\* C13: while every sub-batch succeeds, the i-th pipeline request of a
\* combination asks for min(BATCH_SIZE, NUM_PROMPTS_PER_COMBO - collected so far)
\* items, the loop goes on while fewer than NUM_PROMPTS_PER_COMBO are collected
\* and stops exactly when that many are, after ceil(N/B) requests; for N = 45
\* and B = 20 the sizes are 20, 20, 5, for N = 150 and B = 20 seven of 20 and
\* one of 10.
C13_SubBatchSizes ==
    (/\ ds.pc \in {"batch", "finish"}
     /\ \A i \in 1..Len(hist.batch_log) : SubBatchGood(hist.batch_log[i]))
    => /\ \A i \in 1..Len(hist.batch_log) :
             /\ hist.batch_log[i].requested =
                    Min(BATCH_SIZE,
                        NUM_PROMPTS_PER_COMBO - RequestedBefore(hist.batch_log, i))
             /\ hist.batch_log[i].meta_prompt.num_prompts = hist.batch_log[i].requested
       /\ Len(ds.prompt_texts_list)
              = RequestedBefore(hist.batch_log, Len(hist.batch_log) + 1)
       /\ Len(ds.inscriptions_list) = Len(ds.prompt_texts_list)
       /\ ds.pc = "batch" =>
             /\ Len(ds.prompt_texts_list) < NUM_PROMPTS_PER_COMBO
             /\ Len(hist.batch_log) < CeilDiv(NUM_PROMPTS_PER_COMBO, BATCH_SIZE)
       /\ ds.pc = "finish" =>
             /\ Len(ds.prompt_texts_list) = NUM_PROMPTS_PER_COMBO
             /\ Len(hist.batch_log) = CeilDiv(NUM_PROMPTS_PER_COMBO, BATCH_SIZE)
       /\ [i \in 1..Len(hist.batch_log) |-> hist.batch_log[i].requested]
              = SubSeq(SubBatchSizes(NUM_PROMPTS_PER_COMBO, BATCH_SIZE, 0),
                       1, Len(hist.batch_log))
       /\ SubBatchSizes(45, 20, 0) = <<20, 20, 5>>
       /\ SubBatchSizes(150, 20, 0) = <<20, 20, 20, 20, 20, 20, 20, 10>>

\* a full sub-batch and then the remainder were collected
C13_Witness ==
    /\ ds.pc = "finish"
    /\ Len(hist.batch_log) = 2
    /\ SubBatchGood(hist.batch_log[1])
    /\ SubBatchGood(hist.batch_log[2])
    /\ hist.batch_log[1].requested = BATCH_SIZE
    /\ hist.batch_log[2].requested = NUM_PROMPTS_PER_COMBO - BATCH_SIZE
    /\ hist.batch_log[2].requested < BATCH_SIZE

\* The pipeline produced nothing usable for the sub-batch: it returned failure
\* or the wrong number of items, or it did not return at all
SubBatchFailed(entry) == ~SubBatchGood(entry)

\* The position after the combination in progress: the next combination of the
\* grid, or the end of the run
MovedOn(d, e) ==
    /\ e.pc \in {"combo", "lang", "done"}
    /\ \/ e.pc = "combo" /\ e.li = d.li /\ e.ci = d.ci + 1
       \/ e.pc = "lang" /\ e.li = d.li + 1
       \/ e.pc = "done"

\* The keys the run skips are those of the records its language file held when
\* the run started
SkipsOnlyStoredCombos ==
    ds.pc \in {"combo", "batch", "finish", "write"}
    => ds.processed_combos
          = ProcessedCombos(RecordsIn(hist.start_files[Filename(Lang)]))

\* C14: when a combination fails the process does not stop: it asks for no
\* further sub-batch of that combination, writes nothing, and goes on to the
\* next combination; the failed combination is in no file, and a later run
\* skips only what its files hold, so it attempts the combination again.
C14_FailedComboRecoverable ==
    [][/\ (ds.pc = "batch" /\ hist'.calls = hist.calls + 1
              /\ SubBatchFailed(hist'.batch_log[Len(hist'.batch_log)]))
          => ds'.pc = "finish"
       /\ (ds.pc = "finish" /\ ds'.pc # "stopped"
              /\ \E i \in 1..Len(hist.batch_log) : SubBatchFailed(hist.batch_log[i]))
          => /\ MovedOn(ds, ds')
             /\ hist'.calls = hist.calls
             /\ files' = files
             /\ ds'.lang_prompts = ds.lang_prompts
       /\ SkipsOnlyStoredCombos']_vars

\* What does hold of the code: a sub-batch that the pipeline returns as failed
\* or with the wrong length ends the combination without stopping the run.
ReturnedFailureSkipsCombo ==
    [][/\ (ds.pc = "batch" /\ hist'.calls = hist.calls + 1
              /\ SubBatchBad(hist'.batch_log[Len(hist'.batch_log)]))
          => ds'.pc = "finish"
       /\ (ds.pc = "finish" /\ ds'.pc # "stopped"
              /\ \E i \in 1..Len(hist.batch_log) : SubBatchBad(hist.batch_log[i]))
          => /\ MovedOn(ds, ds')
             /\ hist'.calls = hist.calls
             /\ files' = files
             /\ ds'.lang_prompts = ds.lang_prompts
       /\ SkipsOnlyStoredCombos']_vars

\* C15: as soon as a combination is complete its language's file is rewritten
\* in full, and the file then holds the records loaded at language start
\* followed by the records completed so far in this run, in completion order;
\* no other step writes a file and no other file is touched.
C15_PersistAfterEverySuccess ==
    [][/\ (ds.pc = "finish" /\ ComboComplete(ds.prompt_texts_list) /\ ds'.pc # "stopped")
          => /\ ds'.pc = "write"
             /\ hist'.writes = hist.writes + 1
             /\ hist'.completed # hist.completed
       /\ (ds.pc = "write" /\ ds'.pc # "stopped")
          => /\ files'[Filename(Lang)] = DumpedFile(hist.loaded \o hist.completed)
             /\ RecordsIn(files'[Filename(Lang)]) = hist.loaded \o hist.completed
             /\ hist'.writes = hist.writes
       /\ files' # files
          => /\ \/ ds.pc = "write"
                \/ ds.pc = "finish" /\ ComboComplete(ds.prompt_texts_list)
             /\ \A f \in Filenames \ {Filename(Lang)} : files'[f] = files[f]]_vars

\* a file that held one record when the language started has been rewritten
\* with that record followed by the one completed in this run
C15_Witness ==
    /\ hist.run >= 2
    /\ Len(hist.loaded) = 1
    /\ Len(hist.completed) = 1
    /\ hist.writes >= 1
    /\ \E f \in Filenames : RecordsIn(files[f]) = hist.loaded \o hist.completed

\* All combinations of the grid, as (language, category, quantity, scenario,
\* variation, background, layout)
GridCombos ==
    {CurrentCombo(LANGUAGES[l], combinations[c]) :
        l \in 1..Len(LANGUAGES), c \in 1..Len(combinations)}

\* C17: when generate_dataset has written a file, loading it again gives as
\* many records as were written, with the same prompt_text and inscriptions, and
\* the key set rebuilt from them is the set of the keys of the records written,
\* each the 7-tuple that the enumerator tests for membership; the key of the
\* record just completed is the tuple of the combination in progress, and a
\* later run rebuilds exactly the keys of the file it starts from.
C17_RoundTrip ==
    [][/\ (ds.pc = "write" /\ ds'.pc # "stopped")
          => LET written == ds.lang_prompts
                 reloaded == LoadLangPrompts(files'[Filename(Lang)])
             IN  /\ Len(reloaded) = Len(written)
                 /\ \A i \in 1..Len(written) :
                       /\ reloaded[i].prompt_text = written[i].prompt_text
                       /\ reloaded[i].inscriptions = written[i].inscriptions
                       /\ KeyOf(reloaded[i]) = KeyOf(written[i])
                 /\ ProcessedCombos(reloaded) = ProcessedCombos(written)
                 /\ CurrentCombo(Lang, Combo) = KeyOf(reloaded[Len(reloaded)])
                 /\ ProcessedCombos(reloaded) \subseteq GridCombos
                 /\ Cardinality(ProcessedCombos(reloaded)) = Len(written)
       /\ SkipsOnlyStoredCombos]_vars

\* a later run has rebuilt the keys of both combinations of a language from
\* the file an earlier run wrote
C17_Witness ==
    /\ hist.run >= 2
    /\ ds.pc = "combo"
    /\ Len(hist.loaded) = Len(combinations)
    /\ ds.processed_combos
          = {CurrentCombo(Lang, combinations[c]) : c \in 1..Len(combinations)}
    /\ \A i \in 1..Len(hist.loaded) :
          /\ ds.lang_prompts[i].prompt_text = hist.loaded[i].prompt_text
          /\ Len(ds.lang_prompts[i].prompt_text) = NUM_PROMPTS_PER_COMBO

\* The place of the value v on an axis
IndexOf(axis, v) == CHOOSE i \in 1..Len(axis) : axis[i] = v

\* Tuple a comes before tuple b in the order of nested loops over the axes, the
\* first axis being the outermost loop
NestedBefore(a, b, axes) ==
    \E j \in 1..Len(axes) :
        /\ \A m \in 1..(j - 1) : a[m] = b[m]
        /\ IndexOf(axes[j], a[j]) < IndexOf(axes[j], b[j])

\* combos lists every tuple over the axes once, in the order of nested loops
NestedOrder(combos, axes) ==
    /\ Len(combos) = Len(axes[1]) * Stride(axes, 1)
    /\ \A k \in 1..(Len(combos) - 1) : NestedBefore(combos[k], combos[k + 1], axes)

\* Axes as long as those of the source (4 length categories, 5 quantities,
\* 9 scenarios, 6 variations, 2 backgrounds, 2 layouts), entry i of axis j
\* standing for the i-th value of that axis
SourceAxisSizes == <<4, 5, 9, 6, 2, 2>>

SourceSizedAxes ==
    [j \in 1..Len(SourceAxisSizes) |-> [i \in 1..SourceAxisSizes[j] |-> <<j, i>>]]

\* The place of a combination in the order of the run: languages in the order
\* of LANGUAGES, and within a language the order of `combinations`
PlaceOf(combo) ==
    CHOOSE n \in 1..(Len(LANGUAGES) * Len(combinations)) :
        \E l \in 1..Len(LANGUAGES), c \in 1..Len(combinations) :
            /\ n = (l - 1) * Len(combinations) + c
            /\ combo = CurrentCombo(LANGUAGES[l], combinations[c])

Place(d) == (d.li - 1) * Len(combinations) + d.ci

\* C16: the combinations of a language are visited in the nested order length
\* category, quantity, scenario, variation, background, layout (the first
\* outermost); pipeline calls are made for the combination in progress only
\* and every earlier call was for an earlier combination; a combination is left
\* only once it is resolved (skipped as stored, dropped as failed, or written),
\* for the next one in order; and the next language starts only after the last
\* combination of the language.
C16_SequentialNestedOrder ==
    /\ NestedOrder(combinations, GridAxes)
    /\ NestedOrder(product(SourceSizedAxes), SourceSizedAxes)
    /\ [][/\ hist'.calls = hist.calls + 1
             => /\ ds.pc = "batch"
                /\ hist'.sent = hist.sent \cup {CurrentCombo(Lang, Combo)}
                /\ \A combo \in hist.sent : PlaceOf(combo) <= Place(ds)
          /\ (Running /\ ds'.pc \notin {"stopped", "crashed"})
             => \/ ds'.li = ds.li /\ ds'.ci = ds.ci /\ ds'.pc \notin {"lang", "done"}
                \/ /\ ds.pc = "lang"
                   /\ ds'.li = ds.li /\ ds'.ci = 1 /\ ds'.pc = "combo"
                \/ /\ \/ ds.pc = "combo" /\ CurrentCombo(Lang, Combo) \in ds.processed_combos
                      \/ ds.pc = "finish" /\ ~ComboComplete(ds.prompt_texts_list)
                      \/ ds.pc = "write"
                   /\ MovedOn(ds, ds')
                   /\ ds'.pc \in {"lang", "done"} => ds.ci = Len(combinations)
                   /\ ds'.pc = "combo" => ds.ci < Len(combinations)
                   /\ ds'.pc = "done" => ds.li = Len(LANGUAGES)]_vars

\* the last combination of the last language is in progress and a call has
\* been made for every combination of the grid
C16_Witness ==
    /\ ds.pc = "finish"
    /\ ds.li = Len(LANGUAGES)
    /\ ds.ci = Len(combinations)
    /\ hist.sent = GridCombos
    /\ Len(combinations) >= 2

\* Every invocation of iterative_generate_prompts the dataset loop can make
\* ends, after at most max_iter judge invocations and retries*(1+max_iter)
\* backend attempts
PipelineWorkBounded ==
    \A n \in 1..BATCH_SIZE : \A script \in PipelineScripts(n) :
        LET p == iterative_generate_prompts(
                     create_meta_prompt(LANGUAGES[1], SCENARIOS[1], TEXT_LENGTHS[1][1],
                                        TEXT_LENGTHS[1][2], TEXT_QUANTITIES[1],
                                        TEXT_VARIATIONS[1], BACKGROUNDS[1], LAYOUTS[1], n),
                     script)
        IN  /\ p.pc \in {"returned", "raised"}
            /\ Len(p.log) <= max_iter
            /\ p.attempts <= retries * (1 + max_iter)

\* The run is over: line 280 was reached, or an exception left
\* generate_dataset
RunEnded == ds.pc \in {"done", "crashed"}

\* C20: one invocation of iterative_generate_prompts makes at most max_iter
\* judge invocations and retries*(1+max_iter) backend attempts; the
\* accumulation loop of one combination makes at most ceil(N/B) pipeline
\* invocations, each iteration adding at least one item or leaving the loop;
\* and every run of generate_dataset eventually ends, whatever the backends
\* answer.
C20_BoundedWorkAndTermination ==
    /\ PipelineWorkBounded
    /\ [](ds.pc \in {"batch", "finish"}
            => Len(hist.batch_log) <= CeilDiv(NUM_PROMPTS_PER_COMBO, BATCH_SIZE))
    /\ [][hist'.calls = hist.calls + 1
             => \/ Len(ds'.prompt_texts_list) > Len(ds.prompt_texts_list)
                \/ ds'.pc \in {"finish", "crashed"}]_vars
    /\ [](Running => <>RunEnded)

\* a run that started with no file has reached line 280 after making the
\* largest number of pipeline calls a run can make: ceil(N/B) for every
\* combination of the grid
C20_Witness ==
    /\ ds.pc = "done"
    /\ \A f \in Filenames : hist.start_files[f] = NoFile
    /\ hist.calls = Len(LANGUAGES) * Len(combinations)
                        * CeilDiv(NUM_PROMPTS_PER_COMBO, BATCH_SIZE)

\* The bounds of the pipeline, over all the behaviours of SpecPipe
PipeWorkBounded ==
    /\ Len(pipe.log) <= max_iter
    /\ pipe.attempts <= retries * (1 + max_iter)
    /\ pipe.pc = "judging" => pipe.iteration < max_iter

\* Every combination of the grid has a record in its language's file
AllComplete(fs) ==
    \A l \in 1..Len(LANGUAGES) :
        LET stored == RecordsIn(fs[Filename(LANGUAGES[l])])
        IN  \A c \in 1..Len(combinations) :
               \E i \in 1..Len(stored) :
                   RecordIsFor(stored[i], CurrentCombo(LANGUAGES[l], combinations[c]))

\* C3: a run that starts from files holding a record for every combination
\* makes no pipeline call and no write, and leaves every file as it was.
C3_CompleteFilesNoWork ==
    AllComplete(hist.start_files)
    => /\ hist.calls = 0
       /\ hist.writes = 0
       /\ files = hist.start_files

C3_Witness ==
    /\ hist.run >= 2
    /\ AllComplete(hist.start_files)
    /\ ds.pc = "done"

\* No file holds two records for the same combination
NoDuplicateKeys ==
    \A f \in Filenames :
        LET stored == RecordsIn(files[f])
        IN  \A i, j \in 1..Len(stored) :
               (\A combo \in GridCombos :
                   RecordIsFor(stored[i], combo) <=> RecordIsFor(stored[j], combo))
               => i = j

\* C4: a run never sends to the pipeline a combination whose record an earlier
\* run persisted, however that earlier run ended, and no file ever holds two
\* records for one combination.
C4_NeverRegeneratesPersisted ==
    /\ hist.sent \cap hist.persisted_before = {}
    /\ NoDuplicateKeys

\* What does hold of the code: a run never sends a combination whose record is
\* in the file the run starts from, and no file holds duplicates.
ResumeFromReadableFiles ==
    /\ \A f \in Filenames :
          LET stored == RecordsIn(hist.start_files[f])
          IN  \A combo \in hist.sent : \A i \in 1..Len(stored) :
                 ~RecordIsFor(stored[i], combo)
    /\ NoDuplicateKeys

====
